---- MODULE Spec2Model ----
(***************************************************************************)
(* Model of the cosmetics REST API (src/app.py): the in-memory bearer      *)
(* token store, the require_auth gate, POST /auth/token and the list       *)
(* handlers with their dynamically built SQL statements; of the extraction  *)
(* script (src/extract_data.py) and of the query runner                    *)
(* (src/sql/run_queries.py).                                               *)
(*                                                                         *)
(* Strings that the code takes apart (the Authorization header, query      *)
(* string values, column values) are sequences of symbols.  The symbol     *)
(* "Bearer" stands for the six letters of the scheme, "t1"/"t2" for the    *)
(* 43 characters secrets.token_urlsafe(32) returns; neither holds a space. *)
(***************************************************************************)
EXTENDS Integers, Sequences, FiniteSets, TLC

VARIABLES
    active_tokens,   \* app.py:63  {token: expiry_timestamp}
    issued_at,       \* history: token -> time.time() read when it was generated
    now,             \* the value time.time() returns
    req,             \* the request being answered
    resp,            \* the response to req
    db_query,        \* the statements req passed to conn.execute, in order
    db_log,          \* what req did to the engine: connections opened and
                     \* closed, statements executed, in order
    sephora_products,   \* rows of table sephora_products
    skincare_products,  \* rows of table skincare_products
    hist,            \* the last three pages a paging client was given, latest first
    threads,         \* concurrent executions of decorated(): where each stands
    pc,              \* the statement the running script stands at
    world,           \* what the script finds outside: files, network, database, disk
    locals,          \* local variables of the function being run
    data_dir,        \* files the script has written under data/
    extraction_report,  \* extract_data.py:429
    calls            \* history: the calls the script made to the outside, in order

\* the variables of the scripts
script_vars == <<pc, world, locals, data_dir, extraction_report, calls>>
\* the variables of the API server, the clock aside
server_vars == <<active_tokens, issued_at, req, resp, db_query, db_log,
                 sephora_products, skincare_products, hist, threads>>

vars == <<active_tokens, issued_at, now, req, resp, db_query, db_log,
          sephora_products, skincare_products, hist, threads,
          pc, world, locals, data_dir, extraction_report, calls>>

\* ------------------------------------------------------------------ bounds
MaxTime == 2
MaxTail == 2
MaxCompareRows == 2

\* ------------------------------------------------------------- configuration
\* app.py:60, default 3600 seconds; scaled to the model's clock
TOKEN_EXPIRY_SECONDS == 1
API_USERNAME == "admin"
API_PASSWORD == "admin123"

\* ------------------------------------------------------------------ strings
TokenSyms == {"t1", "t2"}
\* the strings secrets.token_urlsafe can return
Tokens == {<<s>> : s \in TokenSyms}
TailSyms == {" "} \cup TokenSyms

RECURSIVE SeqsUpTo(_, _)
SeqsUpTo(S, n) ==
    IF n = 0 THEN {<<>>}
    ELSE LET shorter == SeqsUpTo(S, n - 1)
         IN  shorter \cup {Append(s, c) : s \in shorter, c \in S}

\* Authorization header values; <<>> is the "" that headers.get defaults to
Headers ==
    {p \o t : p \in {<<>>, <<"Bearer">>, <<"Bearer", " ">>},
              t \in SeqsUpTo(TailSyms, MaxTail)}

\* str.startswith
startswith(s, prefix) ==
    /\ Len(s) >= Len(prefix)
    /\ SubSeq(s, 1, Len(prefix)) = prefix

\* str.split(" "): the pieces between single spaces, empty pieces kept
RECURSIVE split(_)
split(s) ==
    IF \A i \in 1..Len(s) : s[i] # " " THEN <<s>>
    ELSE LET i == CHOOSE k \in 1..Len(s) :
                      s[k] = " " /\ \A j \in 1..(k - 1) : s[j] # " "
         IN  <<SubSeq(s, 1, i - 1)>> \o split(SubSeq(s, i + 1, Len(s)))

\* ------------------------------------------------------------- token store
dict_set_all(d, k, v) == [x \in DOMAIN d \cup {k} |-> v]
\* an assignment that first drops the entries whose expiry has passed
dict_set_sweeping(d, k, v) ==
    [x \in {y \in DOMAIN d : now <= d[y]} \cup {k} |-> IF x = k THEN v ELSE d[x]]
\* dict item assignment: active_tokens[token] = expiry
dict_set(d, k, v) == [x \in DOMAIN d \cup {k} |-> IF x = k THEN v ELSE d[x]]
dict_del_nothing(d, k) == d
\* del active_tokens[token]
dict_del(d, k) == [x \in DOMAIN d \ {k} |-> d[x]]

NoQuery == <<>>
\* the request never reached engine.connect()
NoLog == <<>>
\* engine.connect() raised
ConnectFailed == <<"connect_error">>
\* conn = engine.connect(); <block>; conn.close(): a block that raises skips
\* the close
connect_then_close(block) ==
    <<"connect">> \o block
        \o (IF block # <<>> /\ block[Len(block)] = "execute_error"
            THEN <<>> ELSE <<"close">>)
\* with engine.connect() as conn: <block>.  The connection is checked out of
\* the engine's pool on entry; leaving the block, by its end or by an
\* exception raised in it, closes the connection (returns it to the pool).
with_engine_connect(block) == <<"connect">> \o block \o <<"close">>
\* conn.execute raised inside the with block
ExecuteFailed == with_engine_connect(<<"execute_error">>)
\* conn.execute returned and the with block ended
Executed == with_engine_connect(<<"execute">>)

\* the 401 answers of require_auth
Unauthorized(kind) == [status |-> 401, kind |-> kind]

\* app.py:80
header_ok(auth_header) == startswith(auth_header, <<"Bearer", " ">>)
header_token_last(auth_header) == split(auth_header)[Len(split(auth_header))]
\* app.py:83
header_token(auth_header) == split(auth_header)[2]
\* app.py:86
token_known(token) == token \in DOMAIN active_tokens
token_expired_at_expiry(token) == now >= active_tokens[token]
\* app.py:89
token_expired(token) == now > active_tokens[token]

\* ---------------------------------------------------------------- database
\* Column values are strings over {a, b}.  The price and rating columns are
\* left out: no clause, ordering or aggregate the handlers below build reads
\* them.
S1 == [product_id |-> "P1", product_name |-> <<"a">>, brand_name |-> <<"a", "b">>,
       product_type |-> <<"a">>, has_restricted_ingredient |-> 1, has_cmr |-> 0]
S2 == [product_id |-> "P2", product_name |-> <<"a">>, brand_name |-> <<"a", "b">>,
       product_type |-> <<"b">>, has_restricted_ingredient |-> 0, has_cmr |-> 0]
S3 == [product_id |-> "P3", product_name |-> <<"b">>, brand_name |-> <<"b">>,
       product_type |-> <<"a">>, has_restricted_ingredient |-> 1, has_cmr |-> 1]
\* skincare_products has no key: rowid is the row's identity in the table and
\* is never selected
K1 == [rowid |-> 1, brand |-> <<"a">>, product_name |-> <<"b">>,
       product_type |-> <<"a">>, has_restricted_ingredient |-> 1, has_cmr |-> 0]
K2 == [rowid |-> 2, brand |-> <<"a">>, product_name |-> <<"b">>,
       product_type |-> <<"b">>, has_restricted_ingredient |-> 0, has_cmr |-> 0]
K3 == [rowid |-> 3, brand |-> <<"b">>, product_name |-> <<"a">>,
       product_type |-> <<"a">>, has_restricted_ingredient |-> 0, has_cmr |-> 1]

Catalogs ==
    { [sephora |-> {},           skincare |-> {}],
      [sephora |-> {S1, S3},     skincare |-> {K1, K3}],
      [sephora |-> {S1, S2, S3}, skincare |-> {K1, K2, K3}] }

table_rows(name) ==
    IF name = "sephora_products" THEN sephora_products ELSE skincare_products

\* collation order of the characters
char_rank(c) == CASE c = "a" -> 1 [] c = "b" -> 2 [] OTHER -> 0

\* s sorts before t
RECURSIVE str_lt(_, _)
str_lt(s, t) ==
    IF t = <<>> THEN FALSE
    ELSE IF s = <<>> THEN TRUE
    ELSE IF s[1] # t[1] THEN char_rank(s[1]) < char_rank(t[1])
    ELSE str_lt(Tail(s), Tail(t))

\* SQL LIKE: % matches any run of characters, _ exactly one
RECURSIVE sql_like(_, _)
sql_like(s, p) ==
    IF p = <<>> THEN s = <<>>
    ELSE IF p[1] = "%"
         THEN sql_like(s, Tail(p)) \/ (s # <<>> /\ sql_like(Tail(s), p))
    ELSE IF s = <<>> THEN FALSE
    ELSE (p[1] = "_" \/ p[1] = s[1]) /\ sql_like(Tail(s), Tail(p))

\* one AND-ed condition of a WHERE, its value bound by name
clause_holds(row, clause, params) ==
    IF clause.op = "=" THEN row[clause.column] = params[clause.param]
    ELSE sql_like(row[clause.column], params[clause.param])

\* ORDER BY k1 ASC, k2 ASC: r1 may precede r2
order_leq(r1, r2, keys) ==
    \/ str_lt(r1[keys[1]], r2[keys[1]])
    \/ /\ r1[keys[1]] = r2[keys[1]]
       /\ ~str_lt(r2[keys[2]], r1[keys[2]])

\* every order the server may return rows in: rows equal on the ORDER BY
\* columns come in any order, chosen anew by each statement
row_orders(rows, keys) ==
    {s \in [1..Cardinality(rows) -> rows] :
        /\ \A i, j \in DOMAIN s : i # j => s[i] # s[j]
        /\ \A i, j \in DOMAIN s : i < j => order_leq(s[i], s[j], keys)}

limit_offset_no_skip(s, limit, offset) ==
    SubSeq(s, 1, IF limit < Len(s) THEN limit ELSE Len(s))
\* LIMIT :limit OFFSET :offset
limit_offset(s, limit, offset) ==
    SubSeq(s, offset + 1, IF offset + limit < Len(s) THEN offset + limit ELSE Len(s))

project(row, columns) == [c \in columns |-> row[c]]

\* MySQL rejects a negative LIMIT or OFFSET
statement_valid(q) == q.params.limit >= 0 /\ q.params.offset >= 0

\* the result sets conn.execute may return for a product list statement
execute_select(q) ==
    LET matching == {r \in table_rows(q.table) :
                        \A i \in DOMAIN q.where :
                            clause_holds(r, q.where[i], q.params)}
    IN  { [i \in DOMAIN page |-> project(page[i], q.columns)] :
            page \in { limit_offset(s, q.params.limit, q.params.offset) :
                         s \in row_orders(matching, q.order_by) } }

\* --------------------------------------------------------- request parsing
\* query string values: strings over digits, "-", letters and LIKE wildcards
digit_val(c) == CASE c = "0" -> 0 [] c = "1" -> 1 [] c = "2" -> 2 [] OTHER -> -1

\* int(str) succeeds: an optional sign and at least one digit
int_ok(s) ==
    LET digits == IF s # <<>> /\ s[1] = "-" THEN Tail(s) ELSE s
    IN  digits # <<>> /\ \A i \in DOMAIN digits : digit_val(digits[i]) >= 0

RECURSIVE digits_val(_)
digits_val(s) ==
    IF s = <<>> THEN 0
    ELSE 10 * digits_val(SubSeq(s, 1, Len(s) - 1)) + digit_val(s[Len(s)])

\* int(str), where int_ok
py_int(s) == IF s[1] = "-" THEN 0 - digits_val(Tail(s)) ELSE digits_val(s)

DEFAULT_LIMIT == 50
DEFAULT_OFFSET == 0
DEFAULT_BRANDS_LIMIT == 10

\* int(request.args.get(key, default)) does not raise
arg_int_ok(args, key) == key \in DOMAIN args => int_ok(args[key])
\* int(request.args.get(key, default))
arg_int(args, key, default) ==
    IF key \in DOMAIN args THEN py_int(args[key]) ELSE default

\* `if product_type:` / `if brand:` : None and "" are both falsy
filter_given(args, key) == key \in DOMAIN args /\ args[key] # <<>>

\* the pattern bound to :brand
brand_pattern(brand) == <<"%">> \o brand \o <<"%">>

EscapedError(e) == [status |-> 500, kind |-> "unhandled", error |-> e]
\* except Exception as e: return jsonify({"error": str(e)}), 500
ServerError(e) == [status |-> 500, kind |-> "error", error |-> e]

\* ------------------------------------------------------- product list handlers
\* the statement built at app.py:150-169 (298-300 for skincare)
products_query(table, brand_col, columns, args, limit, offset) ==
    LET type_on  == filter_given(args, "type")
        brand_on == filter_given(args, "brand")
    IN  [ table    |-> table,
          columns  |-> columns,
          where    |->
              (IF type_on
                 THEN <<[column |-> "product_type", op |-> "=",
                         param |-> "product_type"]>>
                 ELSE <<>>)
              \o (IF brand_on
                    THEN <<[column |-> brand_col, op |-> "LIKE", param |-> "brand"]>>
                    ELSE <<>>),
          params   |->
              (IF type_on THEN "product_type" :> args["type"] ELSE <<>>)
              @@ (IF brand_on THEN "brand" :> brand_pattern(args["brand"]) ELSE <<>>)
              @@ ("limit" :> limit) @@ ("offset" :> offset),
          order_by |-> <<brand_col, "product_name">> ]

\* the body of get_sephora_products / get_skincare_products: every
\* (response, statements executed) it can end with.  db is what the database
\* does in this request: "ok", "connect_fails" or "execute_fails".
list_products(table, brand_col, columns, args, db) ==
    IF ~(arg_int_ok(args, "limit") /\ arg_int_ok(args, "offset"))
    THEN {[resp |-> ServerError("ValueError"), query |-> NoQuery, log |-> NoLog]}
    ELSE
      LET limit  == arg_int(args, "limit", DEFAULT_LIMIT)
          offset == arg_int(args, "offset", DEFAULT_OFFSET)
          q == products_query(table, brand_col, columns, args, limit, offset)
      IN  IF db = "connect_fails"
          THEN {[resp |-> ServerError("OperationalError"), query |-> NoQuery,
                 log |-> ConnectFailed]}
          ELSE IF db = "execute_fails"
          THEN {[resp |-> ServerError("OperationalError"), query |-> <<q>>,
                 log |-> ExecuteFailed]}
          ELSE IF ~statement_valid(q)
          THEN {[resp |-> ServerError("ProgrammingError"), query |-> <<q>>,
                 log |-> ExecuteFailed]}
          ELSE {[resp  |-> [status |-> 200, kind |-> "ok", data |-> rows,
                            count |-> Len(rows), limit |-> limit,
                            offset |-> offset],
                 query |-> <<q>>, log |-> Executed] : rows \in execute_select(q)}

SephoraColumns ==
    {"product_id", "product_name", "brand_name", "product_type",
     "has_restricted_ingredient", "has_cmr"}
SkincareColumns ==
    {"brand", "product_name", "product_type", "has_restricted_ingredient", "has_cmr"}

get_sephora_products(args, db) ==
    list_products("sephora_products", "brand_name", SephoraColumns, args, db)

get_skincare_products(args, db) ==
    list_products("skincare_products", "brand", SkincareColumns, args, db)

\* ------------------------------------------------------------ brands handler
RECURSIVE sum_col(_, _)
sum_col(rows, col) ==
    IF rows = {} THEN 0
    ELSE LET r == CHOOSE x \in rows : TRUE
         IN  r[col] + sum_col(rows \ {r}, col)

\* GROUP BY brand_name HAVING SUM(has_restricted_ingredient) > 0
brand_groups ==
    LET grp(b) == {r \in sephora_products : r.brand_name = b}
        agg(b) == [brand_name             |-> b,
                   total_produits         |-> Cardinality(grp(b)),
                   nb_produits_restreints |-> sum_col(grp(b), "has_restricted_ingredient"),
                   nb_produits_cmr        |-> sum_col(grp(b), "has_cmr")]
    IN  {g \in {agg(r.brand_name) : r \in sephora_products} :
            g.nb_produits_restreints > 0}

\* ORDER BY nb_produits_restreints DESC LIMIT :limit
execute_brands(limit) ==
    { limit_offset(s, limit, 0) :
        s \in {o \in [1..Cardinality(brand_groups) -> brand_groups] :
                 /\ \A i, j \in DOMAIN o : i # j => o[i] # o[j]
                 /\ \A i, j \in DOMAIN o : i < j =>
                        o[i].nb_produits_restreints >= o[j].nb_produits_restreints} }

brands_query(limit) ==
    [table |-> "sephora_products", group_by |-> "brand_name",
     params |-> ("limit" :> limit)]

get_sephora_brands(args, db) ==
    IF ~arg_int_ok(args, "limit")
    THEN {[resp |-> ServerError("ValueError"), query |-> NoQuery, log |-> NoLog]}
    ELSE
      LET limit == arg_int(args, "limit", DEFAULT_BRANDS_LIMIT)
          q == brands_query(limit)
      IN  IF db = "connect_fails"
          THEN {[resp |-> ServerError("OperationalError"), query |-> NoQuery,
                 log |-> ConnectFailed]}
          ELSE IF db = "execute_fails"
          THEN {[resp |-> ServerError("OperationalError"), query |-> <<q>>,
                 log |-> ExecuteFailed]}
          ELSE IF limit < 0
          THEN {[resp |-> ServerError("ProgrammingError"), query |-> <<q>>,
                 log |-> ExecuteFailed]}
          ELSE {[resp  |-> [status |-> 200, kind |-> "ok", data |-> rows,
                            count |-> Len(rows)],
                 query |-> <<q>>, log |-> Executed] : rows \in execute_brands(limit)}

\* ------------------------------------------------------- lookup by product_id
\* app.py:186-192
product_by_id_query(product_id) ==
    [ table   |-> "sephora_products",
      columns |-> SephoraColumns,
      where   |-> <<[column |-> "product_id", op |-> "=", param |-> "product_id"]>>,
      params  |-> ("product_id" :> product_id) ]

fetchone_any(q) == {project(r, q.columns) : r \in table_rows(q.table)}
\* the rows result.fetchone() may return; none of them when it returns None
fetchone(q) ==
    {project(r, q.columns) :
        r \in {x \in table_rows(q.table) :
                  \A i \in DOMAIN q.where : clause_holds(x, q.where[i], q.params)}}

\* app.py:198
NotFound(product_id) ==
    [status |-> 404, kind |-> "error",
     error |-> <<"Produit", product_id, "introuvable">>]

\* kwargs holds the variable part of the URL
get_sephora_product_by_id(kwargs, db) ==
    LET product_id == kwargs["product_id"]
        q == product_by_id_query(product_id)
    IN  IF db = "connect_fails"
        THEN {[resp |-> ServerError("OperationalError"), query |-> NoQuery,
               log |-> ConnectFailed]}
        ELSE IF db = "execute_fails"
        THEN {[resp |-> ServerError("OperationalError"), query |-> <<q>>,
               log |-> ExecuteFailed]}
        ELSE IF fetchone(q) = {}
        THEN {[resp |-> NotFound(product_id), query |-> <<q>>, log |-> Executed]}
        ELSE {[resp  |-> [status |-> 200, kind |-> "ok", data |-> row],
               query |-> <<q>>, log |-> Executed] : row \in fetchone(q)}

\* ------------------------------------------------- aggregates and comparison
\* ROUND(SUM(col) / COUNT(*) * 100, 1), in tenths of a percent: the quotient
\* carries four decimals, ROUND rounds the half up
pct(sum, count) ==
    LET quotient == (20000 * sum + count) \div (2 * count)
    IN  (quotient + 5) \div 10

\* SELECT key, COUNT(*), SUM(..), ROUND(..) FROM rows GROUP BY key, where
\* key[r] is the value of the grouping expression on row r
group_by(rows, key) ==
    LET grp(k) == {r \in rows : key[r] = k}
        restreints(k) == sum_col(grp(k), "has_restricted_ingredient")
        cmr(k) == sum_col(grp(k), "has_cmr")
    IN  {[product_type   |-> k,
          total          |-> Cardinality(grp(k)),
          nb_restreints  |-> restreints(k),
          nb_cmr         |-> cmr(k),
          pct_restreints |-> pct(restreints(k), Cardinality(grp(k))),
          pct_cmr        |-> pct(cmr(k), Cardinality(grp(k)))] :
            k \in {key[r] : r \in rows}}

\* every order the server may return rows in under ORDER BY col DESC
orders_desc(rows, col) ==
    {o \in [1..Cardinality(rows) -> rows] :
        /\ \A i, j \in DOMAIN o : i # j => o[i] # o[j]
        /\ \A i, j \in DOMAIN o : i < j => o[i][col] >= o[j][col]}

category_itself(product_type) == product_type
\* CASE WHEN product_type IN (...) THEN 'Skincare' ELSE product_type END
category(product_type) ==
    IF product_type \in {<<"Moisturizer">>, <<"Cleanser">>, <<"Treatment">>,
                         <<"Eye Cream">>, <<"Face Mask">>, <<"Sun Protect">>}
    THEN <<"Skincare">>
    ELSE product_type

\* the result sets of the statement of get_comparaison
execute_comparaison ==
    LET s  == group_by(sephora_products,
                       [r \in sephora_products |-> r.product_type])
        sk == group_by(skincare_products,
                       [r \in skincare_products |-> category(r.product_type)])
        row(a, b) == [categorie               |-> a.product_type,
                      total_sephora           |-> a.total,
                      pct_restreints_sephora  |-> a.pct_restreints,
                      total_skincare          |-> b.total,
                      pct_restreints_skincare |-> b.pct_restreints]
    IN  orders_desc({row(p[1], p[2]) :
                        p \in {x \in s \X sk : x[1].product_type = x[2].product_type}},
                    "pct_restreints_sephora")

\* the body shared by the views that take no argument: one statement, its
\* rows under data, their number under count
run_statement(q, results, db) ==
    IF db = "connect_fails"
    THEN {[resp |-> ServerError("OperationalError"), query |-> NoQuery,
           log |-> ConnectFailed]}
    ELSE IF db = "execute_fails"
    THEN {[resp |-> ServerError("OperationalError"), query |-> <<q>>,
           log |-> ExecuteFailed]}
    ELSE {[resp  |-> [status |-> 200, kind |-> "ok", data |-> rows,
                      count |-> Len(rows)],
           query |-> <<q>>, log |-> Executed] : rows \in results}

BY_TYPE_MIN_COUNT == 10

\* GROUP BY product_type HAVING COUNT(*) > 10 ORDER BY pct_restreints DESC
get_sephora_by_type(db) ==
    run_statement([table |-> "sephora_products", group_by |-> "product_type"],
                  orders_desc({g \in group_by(sephora_products,
                                              [r \in sephora_products |->
                                                  r.product_type]) :
                                  g.total > BY_TYPE_MIN_COUNT},
                              "pct_restreints"),
                  db)

\* WHERE has_cmr = 1 ORDER BY price DESC; the model has no price column, so
\* the rows come in any order
get_skincare_cmr(db) ==
    LET cmr == {project(r, {"brand", "product_name", "product_type"}) :
                   r \in {x \in skincare_products : x.has_cmr = 1}}
    IN  run_statement([table |-> "skincare_products", where |-> "has_cmr = 1"],
                      {o \in [1..Cardinality(cmr) -> cmr] :
                          \A i, j \in DOMAIN o : i # j => o[i] # o[j]},
                      db)

get_comparaison(db) ==
    run_statement([table |-> "sephora_products", join |-> "skincare_products"],
                  execute_comparaison, db)

\* the view function Flask routes the URL to
handler(route, args, db) ==
    CASE route = "sephora_products"  -> get_sephora_products(args, db)
      [] route = "skincare_products" -> get_skincare_products(args, db)
      [] route = "sephora_brands"    -> get_sephora_brands(args, db)
      [] route = "sephora_product_by_id" -> get_sephora_product_by_id(args, db)
      [] route = "sephora_by_type"   -> get_sephora_by_type(db)
      [] route = "skincare_cmr"      -> get_skincare_cmr(db)
      [] route = "comparaison"       -> get_comparaison(db)

\* the list routes
ApiRoutes == {"sephora_products", "skincare_products", "sephora_brands"}

\* what the database does during one request
DbOutcomes == {"ok", "connect_fails", "execute_fails"}

\* ------------------------------------------------------------- require_auth
\* decorated(): the gate, then the wrapped view function
decorated(route, auth_header, args) ==
    /\ req' = [route |-> route, hdr |-> auth_header, args |-> args]
    /\ IF ~header_ok(auth_header)
       THEN /\ resp' = Unauthorized("malformed")
            /\ db_query' = NoQuery /\ db_log' = NoLog
            /\ UNCHANGED active_tokens
       ELSE LET token == header_token(auth_header)
            IN  IF ~token_known(token)
                THEN /\ resp' = Unauthorized("unknown")
                     /\ db_query' = NoQuery /\ db_log' = NoLog
                     /\ UNCHANGED active_tokens
                ELSE IF token_expired(token)
                THEN /\ active_tokens' = dict_del(active_tokens, token)
                     /\ resp' = Unauthorized("expired")
                     /\ db_query' = NoQuery /\ db_log' = NoLog
                ELSE /\ \E db \in DbOutcomes :
                          \E out \in handler(route, args, db) :
                            /\ resp' = out.resp
                            /\ db_query' = out.query
                            /\ db_log' = out.log
                     /\ UNCHANGED active_tokens
    /\ UNCHANGED <<issued_at, now, sephora_products, skincare_products>>
    /\ UNCHANGED script_vars

\* ------------------------------------------------------- POST /auth/token
\* request bodies: "none" is what get_json(silent=True) turns into None (no
\* body, not JSON, wrong content type); the others are parsed JSON values
CredentialValues == {"admin", "admin123"}
Bodies ==
    {[type |-> "none"], [type |-> "null"]}
    \cup {[type |-> "bool", val |-> v] : v \in BOOLEAN}
    \cup {[type |-> "number", val |-> v] : v \in {0, 1}}
    \cup {[type |-> "string", val |-> v] : v \in {"", "admin"}}
    \cup {[type |-> "array", len |-> n] : n \in {0, 1}}
    \cup {[type |-> "object", fields |-> f] :
            f \in UNION {[K -> CredentialValues] :
                            K \in SUBSET {"username", "password"}}}

\* `if not data:` is false
truthy(data) ==
    CASE data.type = "none"   -> FALSE
      [] data.type = "null"   -> FALSE
      [] data.type = "bool"   -> data.val
      [] data.type = "number" -> data.val # 0
      [] data.type = "string" -> data.val # ""
      [] data.type = "array"  -> data.len > 0
      [] data.type = "object" -> DOMAIN data.fields # {}

\* only a dict has .get: any other truthy value raises AttributeError
has_get(data) == data.type = "object"

\* data.get(key, "")
data_get(data, key) == IF key \in DOMAIN data.fields THEN data.fields[key] ELSE ""

\* app.py:114
credentials_ok(username, password) ==
    ~(username # API_USERNAME \/ password # API_PASSWORD)

\* app.py:119
token_expiry == now + TOKEN_EXPIRY_SECONDS

get_token(body) ==
    /\ req' = [route |-> "auth_token", body |-> body]
    /\ db_query' = NoQuery /\ db_log' = NoLog
    /\ IF ~truthy(body)
       THEN /\ resp' = [status |-> 400, kind |-> "bad_request"]
            /\ UNCHANGED <<active_tokens, issued_at>>
       ELSE IF ~has_get(body)
       THEN \* the AttributeError leaves the view: Flask answers 500
            /\ resp' = [status |-> 500, kind |-> "unhandled",
                        error |-> "AttributeError"]
            /\ UNCHANGED <<active_tokens, issued_at>>
       ELSE IF ~credentials_ok(data_get(body, "username"), data_get(body, "password"))
       THEN /\ resp' = [status |-> 401, kind |-> "bad_credentials"]
            /\ UNCHANGED <<active_tokens, issued_at>>
       ELSE \* secrets.token_urlsafe(32): a string not returned before
            \E token \in Tokens \ DOMAIN issued_at :
                /\ active_tokens' = dict_set(active_tokens, token, token_expiry)
                /\ issued_at' = dict_set(issued_at, token, now)
                /\ resp' = [status |-> 200, kind |-> "ok", token |-> token,
                            expires_in |-> TOKEN_EXPIRY_SECONDS,
                            expires_at |-> token_expiry]
    /\ UNCHANGED <<now, sephora_products, skincare_products, hist, threads>>
    /\ UNCHANGED script_vars

\* ---------------------------------------------------------------- the clock
\* time.time() between two requests: it advances, and the wall clock may be
\* set back
Tick == now < MaxTime /\ now' = now + 1
        /\ UNCHANGED <<active_tokens, issued_at, req, resp, db_query, db_log,
                       sephora_products, skincare_products, hist, threads>>
        /\ UNCHANGED script_vars
ClockSetBack == now > 0 /\ now' = now - 1
        /\ UNCHANGED <<active_tokens, issued_at, req, resp, db_query, db_log,
                       sephora_products, skincare_products, hist, threads>>
        /\ UNCHANGED script_vars

\* ------------------------------------------------------------ specifications
\* worker threads of the server (app.run serves each request in its own thread)
Threads == {1, 2}
IdleThread == [pc |-> "idle", token |-> <<>>, resp |-> [status |-> 0, kind |-> "none"]]
NoRequest == [route |-> "none"]
NoResponse == [status |-> 0, kind |-> "none"]

InitWith(catalogs) ==
    /\ active_tokens = <<>>
    /\ issued_at = <<>>
    /\ now = 0
    /\ req = NoRequest
    /\ resp = NoResponse
    /\ db_query = NoQuery
    /\ db_log = NoLog
    /\ \E c \in catalogs : sephora_products = c.sephora
                           /\ skincare_products = c.skincare
    /\ hist = <<>>
    /\ threads = [i \in Threads |-> IdleThread]
    /\ pc = "not run" /\ world = <<>> /\ locals = <<>>
    /\ data_dir = <<>> /\ extraction_report = <<>> /\ calls = <<>>

NoArgs == <<>>

\* a request to an /api/* route
ApiCall(route, auth_header, args) ==
    /\ decorated(route, auth_header, args)
    /\ UNCHANGED <<hist, threads>>

\* The token store under sequential requests and a moving clock.
Init == InitWith({[sephora |-> {S1, S3}, skincare |-> {K1, K3}]})

PostToken == \E body \in Bodies : get_token(body)
GetProducts ==
    \E h \in Headers : ApiCall("sephora_products", h, NoArgs)

Next == PostToken \/ GetProducts \/ Tick \/ ClockSetBack

Spec == Init /\ [][Next]_vars

GoodBody == [type |-> "object",
             fields |-> [username |-> API_USERNAME, password |-> API_PASSWORD]]

\* The list handlers over every catalog, with the clock standing still.
InitList == InitWith(Catalogs)

\* request.args: a dict holding only the keys the query string gives
Opt(key, values) == {<<>>} \cup {key :> v : v \in values}
LimitValues == {<<"0">>, <<"1">>, <<"2">>, <<"x">>, <<"-", "1">>}
OffsetValues == {<<"1">>, <<"2">>, <<"x">>}
TypeValues == {<<>>, <<"a">>}
BrandValues == {<<>>, <<"a">>, <<"b">>, <<"_">>}
ProductArgs ==
    {l @@ o @@ t @@ b : l \in Opt("limit", LimitValues), o \in Opt("offset", OffsetValues),
                        t \in Opt("type", TypeValues), b \in Opt("brand", BrandValues)}
BrandsArgs == Opt("limit", LimitValues)
ListHeaders == {<<>>} \cup {<<"Bearer", " ">> \o t : t \in Tokens}

\* the request has been answered: its context is torn down before the
\* server takes the next one
Idle == req = NoRequest
Close ==
    /\ ~Idle
    /\ req' = NoRequest
    /\ resp' = NoResponse
    /\ db_query' = NoQuery
    /\ db_log' = NoLog
    /\ UNCHANGED <<active_tokens, issued_at, now, sephora_products,
                   skincare_products, hist, threads>>
    /\ UNCHANGED script_vars

ListToken == Idle /\ \E body \in Bodies : get_token(body)
ListSephora ==
    Idle /\ \E h \in ListHeaders, a \in ProductArgs : ApiCall("sephora_products", h, a)
ListSkincare ==
    Idle /\ \E h \in ListHeaders, a \in ProductArgs : ApiCall("skincare_products", h, a)
ListBrands ==
    Idle /\ \E h \in ListHeaders, a \in BrandsArgs : ApiCall("sephora_brands", h, a)

NextList == ListToken \/ ListSephora \/ ListSkincare \/ ListBrands \/ Close

SpecList == InitList /\ [][NextList]_vars

\* Every /api/* route, one request at a time, with the clock standing still.
\* Tables for the comparison: Sephora rows of the coarse categories, skincare
\* rows of the six fine-grained types and of types outside the mapping.
CompareCatalogs ==
    LET sephora(id, type, restricted) ==
            [product_id |-> id, product_name |-> <<"a">>, brand_name |-> <<"a">>,
             product_type |-> <<type>>, has_restricted_ingredient |-> restricted,
             has_cmr |-> 0]
        skincare(id, type, restricted) ==
            [rowid |-> id, brand |-> <<"a">>, product_name |-> <<"a">>,
             product_type |-> <<type>>, has_restricted_ingredient |-> restricted,
             has_cmr |-> 1]
        types == <<"Moisturizer", "Cleanser", "Treatment", "Eye Cream",
                   "Face Mask", "Sun Protect", "Skincare", "Makeup", "Hair">>
    IN  {[sephora |-> s, skincare |-> k] :
            s \in SUBSET {sephora("P4", "Skincare", 1), sephora("P5", "Makeup", 0),
                          sephora("P6", "Skincare", 0), sephora("P7", "Fragrance", 1)},
            k \in {x \in SUBSET {skincare(i, types[i], i % 2) : i \in DOMAIN types} :
                      Cardinality(x) <= MaxCompareRows}}

InitApi == InitWith(Catalogs \cup CompareCatalogs)


ApiToken == Idle /\ get_token(GoodBody)
ApiById ==
    Idle /\ \E h \in ListHeaders, id \in {"P1", "P2", "P3", "P9"} :
                ApiCall("sephora_product_by_id", h, [product_id |-> id])

ApiGet ==
    Idle /\ \E h \in ListHeaders,
                route \in {"sephora_by_type", "skincare_cmr", "comparaison"} :
                ApiCall(route, h, NoArgs)
ApiList ==
    Idle /\ \E h \in ListHeaders, route \in ApiRoutes,
                a \in {NoArgs, "limit" :> <<"1">>, "limit" :> <<"x">>} :
                ApiCall(route, h, a)

NextApi == ApiToken \/ ApiById \/ ApiGet \/ ApiList \/ Close

SpecApi == InitApi /\ [][NextApi]_vars

\* A client paging through a product list: hist keeps the last three pages it
\* was given.
PageArgs ==
    { "limit" :> <<"1">>,
      ("limit" :> <<"1">>) @@ ("offset" :> <<"1">>),
      "limit" :> <<"2">> }
PageHeaders == {<<"Bearer", " ">> \o t : t \in Tokens}

PagedCall(route, auth_header, args) ==
    /\ decorated(route, auth_header, args)
    /\ hist' = IF resp'.status = 200
               THEN LET pages == <<[route |-> route, args |-> args,
                                    data |-> resp'.data]>> \o hist
                    IN  IF Len(pages) > 3 THEN SubSeq(pages, 1, 3) ELSE pages
               ELSE hist
    /\ UNCHANGED threads

PageToken == Idle /\ get_token(GoodBody)
PageSephora ==
    Idle /\ \E h \in PageHeaders, a \in PageArgs : PagedCall("sephora_products", h, a)
PageSkincare ==
    Idle /\ \E h \in PageHeaders, a \in PageArgs : PagedCall("skincare_products", h, a)

NextPage == PageToken \/ PageSephora \/ PageSkincare \/ Close

SpecPage == InitList /\ [][NextPage]_vars

\* ------------------------------------------------- require_auth, concurrently
\* decorated() run by several threads over the one active_tokens dict.  Each
\* dict operation (in, [], del) is atomic under the interpreter lock; a thread
\* may be suspended between any two of them.
answer(i, r) == threads' = [threads EXCEPT ![i] = [pc |-> "done", token |-> @.token,
                                                  resp |-> r]]
goto(i, label) == threads' = [threads EXCEPT ![i].pc = label]

KeyError == [status |-> 500, kind |-> "unhandled", error |-> "KeyError"]

\* app.py:77-83
T_Header(i, auth_header) ==
    /\ threads[i].pc = "idle"
    /\ IF ~header_ok(auth_header)
       THEN answer(i, Unauthorized("malformed"))
       ELSE threads' = [threads EXCEPT ![i] =
                           [pc |-> "L86", token |-> header_token(auth_header),
                            resp |-> @.resp]]
    /\ UNCHANGED active_tokens

\* app.py:86-87
T_Lookup(i) ==
    /\ threads[i].pc = "L86"
    /\ IF ~token_known(threads[i].token)
       THEN answer(i, Unauthorized("unknown"))
       ELSE goto(i, "L89")
    /\ UNCHANGED active_tokens

\* app.py:89: active_tokens[token] raises KeyError when the key is gone
T_Compare(i) ==
    /\ threads[i].pc = "L89"
    /\ IF ~token_known(threads[i].token)
       THEN answer(i, KeyError)
       ELSE IF token_expired(threads[i].token)
       THEN goto(i, "L91")
       ELSE goto(i, "L94")
    /\ UNCHANGED active_tokens

\* app.py:91-92: del active_tokens[token] raises KeyError when the key is gone
T_Evict(i) ==
    /\ threads[i].pc = "L91"
    /\ IF ~token_known(threads[i].token)
       THEN answer(i, KeyError) /\ UNCHANGED active_tokens
       ELSE /\ active_tokens' = dict_del(active_tokens, threads[i].token)
            /\ answer(i, Unauthorized("expired"))

\* app.py:94
T_View(i) ==
    /\ threads[i].pc = "L94"
    /\ \E db \in DbOutcomes :
          \E out \in handler("sephora_products", NoArgs, db) : answer(i, out.resp)
    /\ UNCHANGED active_tokens

\* the thread takes the next request
T_Next(i) ==
    /\ threads[i].pc = "done"
    /\ threads' = [threads EXCEPT ![i] = IdleThread]
    /\ UNCHANGED active_tokens

ThreadFrame ==
    /\ UNCHANGED <<issued_at, now, req, resp, db_query, db_log, sephora_products,
                   skincare_products, hist>>
    /\ UNCHANGED script_vars

\* the headers the concurrent clients send
ConcHeaders == {<<>>} \cup {<<"Bearer", " ">> \o t : t \in Tokens}
ThreadHeader == \E i \in Threads, h \in ConcHeaders : T_Header(i, h) /\ ThreadFrame
ThreadLookup == \E i \in Threads : T_Lookup(i) /\ ThreadFrame
ThreadCompare == \E i \in Threads : T_Compare(i) /\ ThreadFrame
ThreadEvict == \E i \in Threads : T_Evict(i) /\ ThreadFrame
ThreadView == \E i \in Threads : T_View(i) /\ ThreadFrame
ThreadNext == \E i \in Threads : T_Next(i) /\ ThreadFrame
ConcIssue == get_token(GoodBody)

NextConc ==
    \/ ThreadHeader \/ ThreadLookup \/ ThreadCompare \/ ThreadEvict
    \/ ThreadView \/ ThreadNext \/ ConcIssue \/ Tick

SpecConc == Init /\ [][NextConc]_vars

\* ============================================================ extract_data.py
\* A DataFrame: how many columns it has, and its rows
DataFrame(columns, rows) == [columns |-> columns, rows |-> rows]
\* pd.DataFrame()
EmptyFrame == DataFrame(0, <<>>)
\* df.empty: an axis of length 0
empty(df) == Len(df.rows) = 0 \/ df.columns = 0

\* one call to the outside
Call(op, arg) == [op |-> op, arg |-> arg]

\* a local file or a table: [state |-> "ok", df |-> its content], or a state in
\* which reading it raises ("missing": FileNotFoundError; "malformed",
\* "fails": another Exception)
\* the try blocks at extract_data.py:91-100, 103-112, 115-124, 338-358, 361-380
read_or_empty(source) == IF source.state = "ok" THEN source.df ELSE EmptyFrame

extract_stops_at_failure(files) ==
    LET ok(names) == \A n \in names : files[n].state = "ok"
    IN  [cosing   |-> read_or_empty(files.cosing),
         sephora  |-> IF ok({"cosing"}) THEN read_or_empty(files.sephora)
                      ELSE EmptyFrame,
         skincare |-> IF ok({"cosing", "sephora"}) THEN read_or_empty(files.skincare)
                      ELSE EmptyFrame]
\* the dict extract_from_files returns; its keys in insertion order are
\* cosing, sephora, skincare
extract_from_files(files) ==
    [cosing   |-> read_or_empty(files.cosing),
     sephora  |-> read_or_empty(files.sephora),
     skincare |-> read_or_empty(files.skincare)]

\* the columns of the frame extract_by_scraping builds
SCRAPING_COLUMNS == 4
\* the frame extract_by_scraping returns: the links found, no frame content
\* when the section holds no link, an empty frame with its four columns when
\* the section is missing or the request or the parsing raised
extract_by_scraping(page) ==
    CASE page.state = "ok"       -> DataFrame(SCRAPING_COLUMNS, page.links)
      [] page.state = "no_links" -> EmptyFrame
      [] OTHER                   -> DataFrame(SCRAPING_COLUMNS, <<>>)

extract_from_database_one_try(database) ==
    IF database.connect = "ok" /\ database.sephora.state = "ok"
       /\ database.skincare.state = "ok"
    THEN [data  |-> [db_sephora  |-> database.sephora.df,
                     db_skincare |-> database.skincare.df],
          calls |-> <<Call("connect", "mysql"), Call("read_sql", "sephora_products"),
                      Call("read_sql", "skincare_products")>>]
    ELSE [data  |-> [db_sephora |-> EmptyFrame, db_skincare |-> EmptyFrame],
          calls |-> <<Call("connect", "mysql")>>
                    \o (IF database.connect = "ok"
                          THEN <<Call("read_sql", "sephora_products")>> ELSE <<>>)]
\* the dict extract_from_database returns (keys in insertion order db_sephora,
\* db_skincare) and the calls it makes
extract_from_database(database) ==
    IF database.connect # "ok"
    THEN [data  |-> [db_sephora |-> EmptyFrame, db_skincare |-> EmptyFrame],
          calls |-> <<Call("connect", "mysql")>>]
    ELSE [data  |-> [db_sephora  |-> read_or_empty(database.sephora),
                     db_skincare |-> read_or_empty(database.skincare)],
          calls |-> <<Call("connect", "mysql"), Call("read_sql", "sephora_products"),
                      Call("read_sql", "skincare_products")>>]

save_raw_always(name, df, dir, timestamp) ==
    dict_set(dir, <<"raw", name, timestamp>>, df.rows)
\* data/ after save_raw(name, df), where to_csv does not raise; the file is
\* RAW_DIR / f"{name}_{timestamp}.csv"
save_raw(name, df, dir, timestamp) ==
    IF empty(df) THEN dir
    ELSE dict_set(dir, <<"raw", name, timestamp>>, df.rows)

\* ------------------------------------------------------------------- main()
\* main stands in a try block, about to call its fetcher ("call") or in the
\* statements that save what it returned ("save")
at(block, phase) == [block |-> block, phase |-> phase]

main_aborts(block, raised) ==
    IF raised THEN "aborted"
    ELSE CASE block = "files"    -> "api"
           [] block = "api"      -> "scraping"
           [] block = "scraping" -> "database"
           [] block = "database" -> "report"
\* the statement after a try block of main, reached from the end of the block
\* and from its `except Exception` alike
main_continues(block, raised) ==
    CASE block = "files"    -> "api"
      [] block = "api"      -> "scraping"
      [] block = "scraping" -> "database"
      [] block = "database" -> "report"

\* one save_raw(name, df) and extraction_report[key] = len(df) to come
Item(name, key, df) == [name |-> name, key |-> key, df |-> df]

\* the fetcher of the block returned data, having made these calls: main goes
\* on to save the items
returned(block, data, items, made) ==
    /\ pc' = at(block, "save")
    /\ locals' = [locals EXCEPT !.data = data, !.pending = items,
                                !.all_products =
                                    IF block = "api" THEN data.rows ELSE @]
    /\ calls' = calls \o made
    /\ UNCHANGED <<world, data_dir, extraction_report, server_vars, now>>

\* extract_data.py:431-437
MainFiles ==
    /\ pc = at("files", "call")
    /\ LET files_data == extract_from_files(world.files)
       IN  returned("files", files_data,
                    <<Item("cosing", "fichier_cosing", files_data.cosing),
                      Item("sephora", "fichier_sephora", files_data.sephora),
                      Item("skincare", "fichier_skincare", files_data.skincare)>>,
                    <<Call("invoke", "extract_from_files"),
                      Call("read_excel", "cosing"), Call("read_csv", "sephora"),
                      Call("read_csv", "skincare")>>)

\* extract_from_api(max_pages=3), extract_data.py:441
MAX_PAGES == 3
\* the columns of the records extract_from_api appends
API_COLUMNS == 7

\* what the loop body does with the answer to one page request.  A body that
\* is not JSON makes response.json() raise: a ValueError with requests before
\* 2.27, requests.exceptions.JSONDecodeError since, which is a
\* RequestException too and is caught by that clause, placed first.
page_effect(outcome, json_error) ==
    CASE outcome = "products"         -> "append"
      [] outcome = "zero"             -> "break"
      [] outcome = "timeout"          -> "continue"
      [] outcome = "http_error"       -> "continue"
      [] outcome = "connection_error" -> "break"
      [] outcome = "bad_json"         ->
             IF json_error = "RequestException" THEN "break" ELSE "continue"
      [] outcome = "not_object"       -> "raise"

\* one turn of the loop of extract_from_api; the turn that ends the loop
\* returns the frame to main (extract_data.py:147-201, 440-445)
ApiPage ==
    /\ pc = at("api", "call")
    /\ LET page == locals.page
           effect == page_effect(world.pages[page], world.json_error)
           all_products ==
               IF effect = "append"
               THEN Append(locals.all_products,
                           [source |-> "open_beauty_facts_api", page |-> page])
               ELSE locals.all_products
           df == IF all_products = <<>> THEN EmptyFrame
                 ELSE DataFrame(API_COLUMNS, all_products)
           made == (IF page = 1 THEN <<Call("invoke", "extract_from_api")>> ELSE <<>>)
                   \o <<Call("get_page", page)>>
       IN  IF effect = "raise"
           THEN /\ pc' = at(main_continues("api", TRUE), "call")
                /\ calls' = calls \o made
                /\ UNCHANGED <<locals, world, data_dir, extraction_report,
                               server_vars, now>>
           ELSE IF effect = "break" \/ page = MAX_PAGES
           THEN returned("api", df,
                         <<Item("api_open_beauty_facts", "api_open_beauty_facts", df)>>,
                         made)
           ELSE /\ locals' = [locals EXCEPT !.page = page + 1,
                                            !.all_products = all_products]
                /\ calls' = calls \o made
                /\ UNCHANGED <<pc, world, data_dir, extraction_report,
                               server_vars, now>>

\* extract_data.py:448-453
MainScraping ==
    /\ pc = at("scraping", "call")
    /\ LET scraping_data == extract_by_scraping(world.scraping)
       IN  returned("scraping", scraping_data,
                    <<Item("scraping_wikipedia_cosmetics", "scraping_wikipedia",
                           scraping_data)>>,
                    <<Call("invoke", "extract_by_scraping"), Call("get", "wikipedia")>>)

\* extract_data.py:456-462
MainDatabase ==
    /\ pc = at("database", "call")
    /\ LET db == extract_from_database(world.database)
       IN  returned("database", db.data,
                    <<Item("db_sephora", "db_sephora", db.data.db_sephora),
                      Item("db_skincare", "db_skincare", db.data.db_skincare)>>,
                    <<Call("invoke", "extract_from_database")>> \o db.calls)

\* save_raw(name, df) and the report entry after it, for the next item of the
\* block; to_csv raises when data/raw cannot be written, which ends the block
Save ==
    /\ pc.phase = "save"
    /\ locals.pending # <<>>
    /\ LET item == Head(locals.pending)
           rest == Tail(locals.pending)
           made == <<Call("save_raw", item.name)>>
                   \o (IF empty(item.df) THEN <<>> ELSE <<Call("to_csv", item.name)>>)
       IN  /\ calls' = calls \o made
           /\ IF ~empty(item.df) /\ world.disk # "ok"
              THEN /\ pc' = at(main_continues(pc.block, TRUE), "call")
                   /\ locals' = [locals EXCEPT !.pending = <<>>]
                   /\ UNCHANGED <<data_dir, extraction_report>>
              ELSE /\ data_dir' = save_raw(item.name, item.df, data_dir, now)
                   /\ extraction_report' =
                          dict_set(extraction_report, item.key, Len(item.df.rows))
                   /\ locals' = [locals EXCEPT !.pending = rest]
                   /\ pc' = IF rest = <<>>
                            THEN at(main_continues(pc.block, FALSE), "call")
                            ELSE pc
    /\ UNCHANGED <<world, server_vars, now>>

\* extract_data.py:464-475: the report, then main returns
MainReport ==
    /\ pc = at("report", "call")
    /\ pc' = at("report", "done")
    /\ calls' = Append(calls, Call("invoke", "report"))
    /\ UNCHANGED <<world, locals, data_dir, extraction_report, server_vars, now>>

\* ----------------------------------------------------- what the script finds
\* every source answers
GoodWorld ==
    [files      |-> [n \in {"cosing", "sephora", "skincare"} |->
                        [state |-> "ok", df |-> DataFrame(2, <<"row">>)]],
     pages      |-> <<"products", "products", "zero">>,
     json_error |-> "ValueError",
     scraping   |-> [state |-> "ok", links |-> <<"link">>],
     database   |-> [connect  |-> "ok",
                     sephora  |-> [state |-> "ok", df |-> DataFrame(2, <<"row">>)],
                     skincare |-> [state |-> "ok", df |-> DataFrame(2, <<"row">>)]],
     disk       |-> "ok"]

\* one source at a time takes every state it can be in
Worlds ==
  LET
    FileStates ==
        {[state |-> "missing"], [state |-> "malformed"],
         [state |-> "ok", df |-> DataFrame(2, <<>>)],
         [state |-> "ok", df |-> DataFrame(2, <<"row">>)]}
    TableStates ==
        {[state |-> "fails"],
         [state |-> "ok", df |-> DataFrame(2, <<>>)],
         [state |-> "ok", df |-> DataFrame(2, <<"row">>)]}
    PageOutcomes ==
        {"products", "zero", "timeout", "http_error", "connection_error",
         "bad_json", "not_object"}
    ScrapingStates ==
        {[state |-> "ok", links |-> <<"link">>], [state |-> "no_links"],
         [state |-> "no_section"], [state |-> "timeout"]}
  IN
    {[GoodWorld EXCEPT !.files = f] :
        f \in [{"cosing", "sephora", "skincare"} -> FileStates]}
    \cup {[GoodWorld EXCEPT !.pages = p, !.json_error = j] :
             p \in [1..MAX_PAGES -> PageOutcomes],
             j \in {"ValueError", "RequestException"}}
    \cup {[GoodWorld EXCEPT !.scraping = x] : x \in ScrapingStates}
    \cup {[GoodWorld EXCEPT !.database = [connect |-> c, sephora |-> a, skincare |-> b]] :
             c \in {"ok", "fails"}, a \in TableStates, b \in TableStates}

\* every subset of the four sources fails, on a disk that can or cannot be
\* written
MainWorlds ==
    {[files      |-> IF "files" \in failing
                     THEN [n \in {"cosing", "sephora", "skincare"} |->
                              [state |-> "missing"]]
                     ELSE GoodWorld.files,
      pages      |-> IF "api" \in failing THEN [i \in 1..MAX_PAGES |-> how]
                     ELSE GoodWorld.pages,
      json_error |-> "RequestException",
      scraping   |-> IF "scraping" \in failing THEN [state |-> "timeout"]
                     ELSE GoodWorld.scraping,
      database   |-> IF "database" \in failing
                     THEN [GoodWorld.database EXCEPT !.connect = "fails"]
                     ELSE GoodWorld.database,
      disk       |-> disk] :
        failing \in SUBSET {"files", "api", "scraping", "database"},
        how \in {"connection_error", "not_object"},
        disk \in {"ok", "read_only"}}

InitScript(start, worlds) ==
    /\ active_tokens = <<>> /\ issued_at = <<>> /\ now = 0
    /\ req = NoRequest /\ resp = NoResponse /\ db_query = NoQuery /\ db_log = NoLog
    /\ sephora_products = {} /\ skincare_products = {}
    /\ hist = <<>> /\ threads = [i \in Threads |-> IdleThread]
    /\ pc = start
    /\ world \in worlds
    /\ locals = [page |-> 1, all_products |-> <<>>, data |-> <<>>, pending |-> <<>>]
    /\ data_dir = <<>>
    /\ extraction_report = <<>>
    /\ calls = <<>>

\* the interpreter runs the next statement of main
MainStep == MainFiles \/ ApiPage \/ MainScraping \/ MainDatabase \/ Save \/ MainReport

NextScript == MainStep \/ Tick

\* One run of extract_data.py in each world.
InitExtract == InitScript(at("files", "call"), Worlds)
SpecScript == InitExtract /\ [][NextScript]_vars

\* The same, where every subset of sources fails; the interpreter does not stop.
InitMain == InitScript(at("files", "call"), MainWorlds)
SpecMain == InitMain /\ [][NextScript]_vars /\ WF_vars(MainStep)

\* ============================================================= run_queries.py
\* the files the eight statements are saved to under data/processed
OUTPUT_FILES ==
    <<"q1_sephora_base.csv", "q2_produits_restreints.csv",
      "q3_produits_risque_eleve.csv", "q4_aggregation_par_type.csv",
      "q5_top10_marques.csv", "q6_jointure_sephora_skincare.csv",
      "q7_dessus_moyenne.csv", "q8_skincare_cmr.csv">>

runner_skips(k, raised) ==
    IF k < Len(OUTPUT_FILES) THEN <<"run", k + 1>> ELSE <<"dispose", k>>
\* where the module body stands after the statements of query k: an exception
\* is caught nowhere and ends the interpreter
runner_continues(k, raised) ==
    IF raised THEN <<"aborted", k>>
    ELSE IF k < Len(OUTPUT_FILES) THEN <<"run", k + 1>> ELSE <<"dispose", k>>

\* df_qk = pd.read_sql(qk, engine); df_qk.to_csv(OUTPUT_DIR / file, index=False)
RunQuery ==
    /\ pc.block = "queries" /\ pc.phase[1] = "run"
    /\ LET k == pc.phase[2]
           answer_k == world.queries[k]
       IN  IF answer_k.state # "ok"
           THEN /\ calls' = Append(calls, Call("read_sql", k))
                /\ pc' = at("queries", runner_continues(k, TRUE))
                /\ UNCHANGED data_dir
           ELSE IF world.disk # "ok"
           THEN /\ calls' = calls \o <<Call("read_sql", k), Call("to_csv", k)>>
                /\ pc' = at("queries", runner_continues(k, TRUE))
                /\ UNCHANGED data_dir
           ELSE /\ calls' = calls \o <<Call("read_sql", k), Call("to_csv", k)>>
                /\ data_dir' = dict_set(data_dir, <<"processed", OUTPUT_FILES[k]>>,
                                        answer_k.df.rows)
                /\ pc' = at("queries", runner_continues(k, FALSE))
    /\ UNCHANGED <<world, locals, extraction_report, server_vars, now>>

\* run_queries.py:208-209
QueriesEnd ==
    /\ pc.block = "queries" /\ pc.phase[1] = "dispose"
    /\ pc' = at("queries", <<"done", pc.phase[2]>>)
    /\ calls' = Append(calls, Call("dispose", "engine"))
    /\ UNCHANGED <<world, locals, data_dir, extraction_report, server_vars, now>>

\* each statement fails, or returns no row or one; data/processed can or
\* cannot be written
InitQueries ==
    InitScript(at("queries", <<"run", 1>>),
               {[queries |-> q, disk |-> d] :
                   q \in [DOMAIN OUTPUT_FILES ->
                            {[state |-> "fails"],
                             [state |-> "ok", df |-> DataFrame(2, <<>>)],
                             [state |-> "ok", df |-> DataFrame(2, <<"row">>)]}],
                   d \in {"ok", "read_only"}})

\* One run of run_queries.py.
SpecQueries == InitQueries /\ [][RunQuery \/ QueriesEnd]_vars

\* ===================================================================== claims
\* this step answers a request to an /api/* route
ApiStep == now' = now /\ req'.route \in ApiRoutes
\* this step answers a POST /auth/token
TokenStep == now' = now /\ req'.route = "auth_token"

\* the view function was called
Accepted(r) == r.kind \in {"ok", "error"}

\* the request carries "Bearer " followed by something
Bearer(r) == r.route \in ApiRoutes /\ Len(r.hdr) >= 2
             /\ r.hdr[1] = "Bearer" /\ r.hdr[2] = " "
\* what follows "Bearer ", up to the next space or the end
Presented(r) ==
    LET rest == SubSeq(r.hdr, 3, Len(r.hdr))
        stop == IF \E i \in DOMAIN rest : rest[i] = " "
                THEN CHOOSE i \in DOMAIN rest :
                         rest[i] = " " /\ \A j \in 1..(i - 1) : rest[j] # " "
                ELSE Len(rest) + 1
    IN  SubSeq(rest, 1, stop - 1)

\* C1: a token issued at t0 is accepted by the gate exactly while it is in the
\* store and time.time() <= t0 + TOKEN_EXPIRY_SECONDS; the instant t0 + TTL
\* itself is accepted, every later instant is rejected.
C1_AcceptedUntilExpiry ==
    [][(ApiStep /\ Bearer(req') /\ Presented(req') \in DOMAIN issued_at) =>
         LET t == Presented(req')
         IN  /\ Accepted(resp') <=>
                   (t \in DOMAIN active_tokens
                    /\ now <= issued_at[t] + TOKEN_EXPIRY_SECONDS)
             /\ now > issued_at[t] + TOKEN_EXPIRY_SECONDS => resp'.status = 401
      ]_vars

\* a token presented at exactly t0 + TTL was accepted
C1_Witness ==
    /\ Bearer(req)
    /\ Presented(req) \in DOMAIN issued_at
    /\ now = issued_at[Presented(req)] + TOKEN_EXPIRY_SECONDS
    /\ resp.status = 200

\* C2 (as stated): once a token has been answered 401 "expired", a later call
\* with the same token is answered 401 "expired" again.
C2_SameKindAgain ==
    [][(Bearer(req) /\ resp.kind = "expired" /\ ApiStep /\ Bearer(req')
        /\ Presented(req') = Presented(req)) =>
         (resp'.status = 401 /\ resp'.kind = "expired")]_vars

\* C2 (amended): the call that finds the token expired is answered 401
\* "expired" and evicts it; every later call with that token is answered 401
\* too, with the kind "unknown".
C2_ExpiredThenUnknown ==
    [][(ApiStep /\ Bearer(req')) =>
         LET t == Presented(req')
         IN  /\ (t \in DOMAIN active_tokens /\ now > active_tokens[t]) =>
                   /\ resp' = [status |-> 401, kind |-> "expired"]
                   /\ t \notin DOMAIN active_tokens'
             /\ (Bearer(req) /\ resp.kind = "expired" /\ Presented(req) = t) =>
                   resp' = [status |-> 401, kind |-> "unknown"]
             /\ (t \in DOMAIN issued_at /\ t \notin DOMAIN active_tokens) =>
                   resp' = [status |-> 401, kind |-> "unknown"]
      ]_vars

\* a token that was issued and evicted is presented again and answered "unknown"
C2_Witness ==
    /\ Bearer(req)
    /\ Presented(req) \in DOMAIN issued_at
    /\ resp = [status |-> 401, kind |-> "unknown"]

\* C3: a token evicted on expiry is never accepted again, whatever the clock
\* reads later: it stays out of the store and every call presenting it is
\* refused.
C3_EvictedNeverAccepted ==
    [][/\ \A t \in DOMAIN issued_at :
             t \notin DOMAIN active_tokens => t \notin DOMAIN active_tokens'
       /\ (ApiStep /\ Bearer(req')) =>
             LET t == Presented(req')
             IN  /\ resp'.kind = "expired" => t \notin DOMAIN active_tokens'
                 /\ (Bearer(req) /\ resp.kind = "expired" /\ Presented(req) = t) =>
                       ~Accepted(resp')
                 /\ (t \in DOMAIN issued_at /\ t \notin DOMAIN active_tokens) =>
                       ~Accepted(resp')
      ]_vars

\* an evicted token was presented while the clock, set back, read no more than
\* its expiry, and it was refused
C3_Witness ==
    /\ Bearer(req)
    /\ Presented(req) \in DOMAIN issued_at
    /\ Presented(req) \notin DOMAIN active_tokens
    /\ now <= issued_at[Presented(req)] + TOKEN_EXPIRY_SECONDS
    /\ resp.status = 401 /\ resp.kind = "unknown"

\* C4: for every Authorization header the view function and its statement run
\* only if the presented token is in the store with now <= its expiry;
\* otherwise the answer is 401, decided in the order malformed header, unknown
\* token, expired token; the gate never fails with an unhandled error.
C4_GateOrder ==
    [][ApiStep =>
         IF ~Bearer(req')
         THEN resp' = [status |-> 401, kind |-> "malformed"] /\ db_query' = NoQuery
         ELSE IF Presented(req') \notin DOMAIN active_tokens
         THEN resp' = [status |-> 401, kind |-> "unknown"] /\ db_query' = NoQuery
         ELSE IF now > active_tokens[Presented(req')]
         THEN resp' = [status |-> 401, kind |-> "expired"] /\ db_query' = NoQuery
         ELSE Accepted(resp') /\ resp'.status \in {200, 500}
      ]_vars

\* a header with more text after the token passed the gate on that token
C4_Witness ==
    /\ Bearer(req)
    /\ Len(req.hdr) > 3
    /\ Presented(req) \in DOMAIN active_tokens
    /\ resp.status = 200 /\ db_query # NoQuery

\* C6: POST /auth/token ends with 200 and one new store entry expiring at
\* now + TTL when the body carries the configured pair, with 401 when the
\* credentials do not match, with 400 when the body is missing or malformed
\* (a JSON value that is not an object included); 400 and 401 leave the store
\* unchanged.
C6_TokenOutcomes ==
    [][TokenStep =>
         LET body == req'.body
             is_object == body.type = "object"
             match == /\ is_object
                      /\ DOMAIN body.fields = {"username", "password"}
                      /\ body.fields.username = API_USERNAME
                      /\ body.fields.password = API_PASSWORD
         IN  /\ resp'.status \in {200, 400, 401}
             /\ match <=> resp'.status = 200
             /\ ~is_object => resp'.status = 400
             /\ resp'.status = 200 =>
                   /\ resp'.token \notin DOMAIN active_tokens
                   /\ DOMAIN active_tokens' = DOMAIN active_tokens \cup {resp'.token}
                   /\ active_tokens'[resp'.token] = now + TOKEN_EXPIRY_SECONDS
                   /\ resp'.expires_in = TOKEN_EXPIRY_SECONDS
                   /\ resp'.expires_at = now + TOKEN_EXPIRY_SECONDS
             /\ resp'.status # 200 => active_tokens' = active_tokens
      ]_vars

\* C5: under every interleaving of concurrent requests on the same token, each
\* request ends with the view function called or with a 401; none ends with an
\* unhandled error.
C5_NoUnhandledError ==
    \A i \in Threads :
        threads[i].pc = "done" =>
            (threads[i].resp.status = 401 \/ Accepted(threads[i].resp))

ProductRoutes == {"sephora_products", "skincare_products"}
BrandColumn(route) == IF route = "sephora_products" THEN "brand_name" ELSE "brand"
Table(route) == IF route = "sephora_products" THEN sephora_products
                ELSE skincare_products

\* the string is a decimal number, with or without a sign
Numeric(str) ==
    LET body == IF str # <<>> /\ str[1] = "-" THEN Tail(str) ELSE str
    IN  body # <<>> /\ \A i \in DOMAIN body : body[i] \in {"0", "1", "2"}

\* the filter is supplied and is not the empty string
Present(r, key) == key \in DOMAIN r.args /\ r.args[key] # <<>>

\* sub occurs in str
Substring(sub, str) ==
    \E i \in 1..(Len(str) + 1) :
        /\ i + Len(sub) - 1 <= Len(str)
        /\ \A j \in 1..Len(sub) : str[i + j - 1] = sub[j]

Min(a, b) == IF a < b THEN a ELSE b
Max(a, b) == IF a > b THEN a ELSE b

\* C7: in the list handlers an absent limit/offset takes its default (50 and 0
\* for products, 10 for brands), and a supplied limit or offset that is not
\* numeric is answered with a 4xx, with no statement sent to the database.
C7_BadPaginationIsClientError ==
    (req.route \in ApiRoutes /\ Accepted(resp)) =>
        /\ (resp.status = 200 /\ req.route \in ProductRoutes) =>
              /\ "limit" \notin DOMAIN req.args =>
                    (resp.limit = 50 /\ db_query[1].params.limit = 50)
              /\ "offset" \notin DOMAIN req.args =>
                    (resp.offset = 0 /\ db_query[1].params.offset = 0)
        /\ (resp.status = 200 /\ req.route = "sephora_brands"
             /\ "limit" \notin DOMAIN req.args) =>
              db_query[1].params.limit = 10
        /\ (\E k \in {"limit", "offset"} \cap DOMAIN req.args :
                ~Numeric(req.args[k])) =>
              (resp.status \in 400..499 /\ db_query = NoQuery)

\* C8: the statement of a product list constrains product_type / the brand
\* column exactly when that filter is present ("" counts as absent), binding
\* no parameter otherwise; a present type filter selects the rows whose type
\* equals it, a present brand filter the rows whose brand contains it.
C8_FiltersOnlyWhenPresent ==
    (req.route \in ProductRoutes /\ resp.status = 200) =>
        LET q == db_query[1]
            bcol == BrandColumn(req.route)
            type_on == Present(req, "type")
            brand_on == Present(req, "brand")
            wanted == {r \in Table(req.route) :
                          /\ type_on => r.product_type = req.args["type"]
                          /\ brand_on => Substring(req.args["brand"], r[bcol])}
        IN  /\ (\E i \in DOMAIN q.where : q.where[i].column = "product_type") <=> type_on
            /\ (\E i \in DOMAIN q.where : q.where[i].column = bcol) <=> brand_on
            /\ "product_type" \in DOMAIN q.params <=> type_on
            /\ "brand" \in DOMAIN q.params <=> brand_on
            /\ Len(q.where) = (IF type_on THEN 1 ELSE 0) + (IF brand_on THEN 1 ELSE 0)
            /\ \A i \in DOMAIN resp.data :
                   \E r \in wanted : resp.data[i] = [c \in q.columns |-> r[c]]
            /\ Len(resp.data) =
                   Min(q.params.limit, Max(0, Cardinality(wanted) - q.params.offset))

\* C9: on unchanged data the pages offset=0,limit=N and offset=N,limit=N of a
\* product list share no row and, one after the other, are the page
\* offset=0,limit=2N.
C9_StablePagination ==
    \A i, j, k \in DOMAIN hist :
        LET lim(e) == arg_int(e.args, "limit", 50)
            off(e) == arg_int(e.args, "offset", 0)
        IN  (/\ hist[i].route = hist[j].route /\ hist[j].route = hist[k].route
             /\ off(hist[i]) = 0 /\ lim(hist[i]) > 0
             /\ off(hist[j]) = lim(hist[i]) /\ lim(hist[j]) = lim(hist[i])
             /\ off(hist[k]) = 0 /\ lim(hist[k]) = 2 * lim(hist[i])) =>
                /\ \A a \in DOMAIN hist[i].data, b \in DOMAIN hist[j].data :
                       hist[i].data[a] # hist[j].data[b]
                /\ hist[i].data \o hist[j].data = hist[k].data

\* C10: a successful product list answers 200 with data, count, limit and
\* offset; count is the number of rows in data, which is min(limit, rows the
\* statement's filters match less offset); limit and offset are the values
\* bound in the statement; the rows ascend by brand, then product name.
C10_ListResponse ==
    (req.route \in ProductRoutes /\ resp.status = 200) =>
        LET q == db_query[1]
            bcol == BrandColumn(req.route)
            limit == IF "limit" \in DOMAIN req.args THEN py_int(req.args.limit) ELSE 50
            offset == IF "offset" \in DOMAIN req.args THEN py_int(req.args.offset) ELSE 0
            matching == {r \in Table(req.route) :
                            \A i \in DOMAIN q.where : clause_holds(r, q.where[i], q.params)}
        IN  /\ DOMAIN resp = {"status", "kind", "data", "count", "limit", "offset"}
            /\ resp.count = Len(resp.data)
            /\ Len(resp.data) = Min(limit, Max(0, Cardinality(matching) - offset))
            /\ resp.limit = limit /\ q.params.limit = limit
            /\ resp.offset = offset /\ q.params.offset = offset
            /\ \A i, j \in DOMAIN resp.data :
                   i < j => /\ ~str_lt(resp.data[j][bcol], resp.data[i][bcol])
                            /\ resp.data[i][bcol] = resp.data[j][bcol] =>
                                  ~str_lt(resp.data[j].product_name,
                                          resp.data[i].product_name)

\* limit=2 on a table of three rows gave exactly two rows, the second page of it
\* one
C10_Witness ==
    /\ req.route = "sephora_products" /\ resp.status = 200
    /\ Cardinality(sephora_products) = 3
    /\ DOMAIN req.args = {"limit", "offset"}
    /\ req.args.limit = <<"2">> /\ req.args.offset = <<"2">>
    /\ resp.count = 1

\* ------------------------------------------------------------ claims C11..C20
\* engine.connect() or conn.execute raised during the request
DbFailed == \E i \in DOMAIN db_log : db_log[i] \in {"connect_error", "execute_error"}

\* C11: GET /api/sephora/products/{id} past the gate, the database answering:
\* 404 with a JSON error body exactly when no row of sephora_products has that
\* product_id, 200 with the row of that product_id under data when one exists;
\* a miss is never a 500 nor an unhandled error.
C11_LookupByIdOutcomes ==
    (req.route = "sephora_product_by_id" /\ resp.status \notin {0, 401}) =>
        LET id == req.args.product_id
            found == {r \in sephora_products : r.product_id = id}
        IN  /\ resp.kind \in {"ok", "error"}
            /\ resp.status \in {200, 404, 500}
            /\ resp.status = 500 => DbFailed
            /\ ~DbFailed => /\ resp.status = 404 <=> found = {}
                            /\ resp.status = 200 <=> found # {}
            /\ resp.status = 404 =>
                   /\ found = {}
                   /\ DOMAIN resp = {"status", "kind", "error"}
                   /\ resp.kind = "error"
            /\ resp.status = 200 =>
                   /\ DOMAIN resp = {"status", "kind", "data"}
                   /\ \E r \in found :
                          resp.data = [c \in SephoraColumns |-> r[c]]

\* an id no row of a non-empty table carries was looked up and answered 404
C11_Witness ==
    /\ req.route = "sephora_product_by_id"
    /\ req.args.product_id = "P9"
    /\ sephora_products # {}
    /\ db_log = Executed
    /\ resp.status = 404

\* the coarse category of a skincare product_type: the six listed types are
\* 'Skincare', every other value is its own category
Coarse(type) ==
    CASE type = <<"Moisturizer">> -> <<"Skincare">>
      [] type = <<"Cleanser">>    -> <<"Skincare">>
      [] type = <<"Treatment">>   -> <<"Skincare">>
      [] type = <<"Eye Cream">>   -> <<"Skincare">>
      [] type = <<"Face Mask">>   -> <<"Skincare">>
      [] type = <<"Sun Protect">> -> <<"Skincare">>
      [] OTHER                    -> type

\* C12: the comparison maps every skincare product_type to exactly one coarse
\* category (the six listed types to 'Skincare', any other to itself), and its
\* result holds exactly one row for each category found both among the Sephora
\* product types and among the mapped skincare categories, none dropped, each
\* counting all the rows of its category on either side.
C12_ComparisonJoin ==
    (req.route = "comparaison" /\ resp.status = 200) =>
        LET both == {r.product_type : r \in sephora_products}
                    \cap {Coarse(r.product_type) : r \in skincare_products}
        IN  /\ resp.count = Len(resp.data)
            /\ Len(resp.data) = Cardinality(both)
            /\ \A c \in both : \E i \in DOMAIN resp.data : resp.data[i].categorie = c
            /\ \A i \in DOMAIN resp.data :
                   LET c == resp.data[i].categorie
                   IN  /\ c \in both
                       /\ resp.data[i].total_sephora =
                              Cardinality({r \in sephora_products : r.product_type = c})
                       /\ resp.data[i].total_skincare =
                              Cardinality({r \in skincare_products :
                                              Coarse(r.product_type) = c})
            /\ \A r \in skincare_products : category(r.product_type) = Coarse(r.product_type)

\* a skincare row of a listed type was joined to the Sephora category
\* 'Skincare', and one of a type outside the mapping to the category of its
\* own name
C12_Witness ==
    /\ req.route = "comparaison" /\ resp.status = 200
    /\ {r.product_type : r \in skincare_products} = {<<"Moisturizer">>, <<"Makeup">>}
    /\ resp.count = 2
    /\ {resp.data[i].categorie : i \in DOMAIN resp.data} = {<<"Skincare">>, <<"Makeup">>}

AllApiRoutes ==
    ApiRoutes \cup {"sephora_product_by_id", "sephora_by_type", "skincare_cmr",
                    "comparaison"}

\* how many entries of seq are in S
Count(seq, S) == Cardinality({i \in DOMAIN seq : seq[i] \in S})

\* C13: in every /api/* view past the gate, a failure of the database call
\* (connecting or executing) is answered 500 with a JSON body carrying the
\* error raised; the view connects at most once and executes at most one
\* statement once (no retry), and no failure leaves the view unhandled.
C13_DbFailureIs500Once ==
    (req.route \in AllApiRoutes /\ resp.status \notin {0, 401}) =>
        /\ resp.kind \in {"ok", "error"}
        /\ Count(db_log, {"connect", "connect_error"}) <= 1
        /\ Count(db_log, {"execute", "execute_error"}) <= 1
        /\ Len(db_query) = Count(db_log, {"execute", "execute_error"})
        /\ DbFailed =>
               /\ resp.status = 500
               /\ DOMAIN resp = {"status", "kind", "error"}
               /\ resp.error \in {"OperationalError", "ProgrammingError"}
               /\ db_log \in {ConnectFailed, ExecuteFailed}

\* the statement of the comparison failed and was answered 500, after one
\* attempt
C13_Witness ==
    /\ req.route = "comparaison"
    /\ db_log = ExecuteFailed
    /\ Len(db_query) = 1
    /\ resp = ServerError("OperationalError")

\* the functions main has invoked so far, in order
Invoked ==
    LET invocations == SelectSeq(calls, LAMBDA c : c.op = "invoke")
    IN  [i \in DOMAIN invocations |-> invocations[i].arg]

Fetchers ==
    <<"extract_from_files", "extract_from_api", "extract_by_scraping",
      "extract_from_database", "report">>

\* C14: the run of main always reaches the end of its report; on the way it
\* invokes the four fetchers in the order files, API, scraping, database,
\* each exactly once whatever the earlier ones and their saves did, then the
\* report; a missing local file gives an empty result for that file.
C14_RunCompletes ==
    /\ <>(pc = at("report", "done"))
    /\ [](\E n \in 0..Len(Fetchers) : Invoked = SubSeq(Fetchers, 1, n))
    /\ [](pc = at("report", "done") => Invoked = Fetchers)
    /\ [](pc = at("files", "save") =>
            \A n \in DOMAIN world.files :
                world.files[n].state = "missing" => locals.data[n] = EmptyFrame)

\* the run ended where the files were missing, the API fetcher raised, the
\* scraping timed out, the database refused the connection
C14_Witness ==
    /\ pc = at("report", "done")
    /\ world.files.cosing.state = "missing"
    /\ world.pages[1] = "not_object"
    /\ world.scraping.state = "timeout"
    /\ world.database.connect = "fails"
    /\ Invoked = Fetchers

\* the pages extract_from_api has requested so far, in order
Requested ==
    LET gets == SelectSeq(calls, LAMBDA c : c.op = "get_page")
    IN  [i \in DOMAIN gets |-> gets[i].arg]

\* C15: the API fetcher requests the pages 1, 2, ... in increasing order, at
\* most max_pages of them; it stops at the first page with zero products or a
\* fatal connection failure; a timeout, an HTTP error status or a body that is
\* not JSON skips that page only; the frame returned holds the products of
\* every page requested that gave some, in order.
C15_PaginationStops ==
    LET stops(p) == world.pages[p] \in {"zero", "connection_error"}
        last == IF \E p \in 1..MAX_PAGES : stops(p)
                THEN CHOOSE p \in 1..MAX_PAGES :
                         stops(p) /\ \A q \in 1..(p - 1) : ~stops(q)
                ELSE MAX_PAGES
        kept(n) == SelectSeq([p \in 1..n |-> [source |-> "open_beauty_facts_api",
                                              page |-> p]],
                             LAMBDA r : world.pages[r.page] = "products")
    IN  (\A p \in 1..MAX_PAGES : world.pages[p] # "not_object") =>
            /\ Requested = [i \in 1..Len(Requested) |-> i]
            /\ Len(Requested) <= last
            /\ pc = at("api", "call") =>
                   locals.all_products = kept(Len(Requested))
            /\ pc = at("api", "save") =>
                   /\ Len(Requested) = last
                   /\ locals.data.rows = kept(last)

\* the statements whose file the run has written
Written == {k \in DOMAIN OUTPUT_FILES : <<"processed", OUTPUT_FILES[k]>> \in DOMAIN data_dir}

\* C16: the runner executes q1..q8 in that order, saving each result to its
\* file before executing the next statement; when statement k fails the run
\* ends there: the files of q1..q(k-1) are written, the file of qk and those
\* of the later statements are not, and no later statement is executed.
C16_AbortsAtFirstFailure ==
    LET failed == {k \in DOMAIN OUTPUT_FILES : world.queries[k].state # "ok"}
        first == IF failed = {} THEN Len(OUTPUT_FILES) + 1
                 ELSE CHOOSE k \in failed : \A j \in failed : k <= j
        executed == SelectSeq(calls, LAMBDA c : c.op = "read_sql")
    IN  (pc.block = "queries" /\ world.disk = "ok") =>
            /\ \A i \in DOMAIN executed : executed[i].arg = i
            /\ \A i \in DOMAIN calls :
                   calls[i].op = "read_sql" =>
                       \A j \in 1..(calls[i].arg - 1) :
                           \E h \in 1..(i - 1) : calls[h] = Call("to_csv", j)
            /\ Len(executed) <= first
            /\ Written \subseteq 1..(first - 1)
            /\ Written = 1..Len(executed) \ {first}
            /\ pc.phase[1] = "aborted" =>
                   /\ failed # {}
                   /\ Len(executed) = first
                   /\ Written = 1..(first - 1)
            /\ pc.phase[1] = "done" => (failed = {} /\ Written = DOMAIN OUTPUT_FILES)
            /\ pc.phase[1] = "run" => Len(executed) = pc.phase[2] - 1

\* the third statement failed after two files were written, and the run ended
C16_Witness ==
    /\ pc = at("queries", <<"aborted", 3>>)
    /\ world.disk = "ok"
    /\ world.queries[3].state = "fails"
    /\ Written = {1, 2}
    /\ Len(calls) = 5

\* C17: extract_from_files never raises and returns exactly the entries
\* cosing, sephora and skincare: the entry of a file that is missing or
\* malformed is an empty frame, the entry of every other file is its content,
\* whichever files before it failed.
C17_FilesDegradeToEmpty ==
    [][(pc = at("files", "call") /\ pc' # pc) =>
         /\ pc' = at("files", "save")
         /\ DOMAIN locals'.data = {"cosing", "sephora", "skincare"}
         /\ \A n \in {"cosing", "sephora", "skincare"} :
                IF world.files[n].state \in {"missing", "malformed"}
                THEN locals'.data[n] = [columns |-> 0, rows |-> <<>>]
                ELSE locals'.data[n] = world.files[n].df
      ]_vars

\* the first file was missing, the second malformed, and the third was
\* returned with its row
C17_Witness ==
    /\ pc = at("files", "save")
    /\ world.files.cosing.state = "missing"
    /\ world.files.sephora.state = "malformed"
    /\ locals.data.cosing = EmptyFrame /\ locals.data.sephora = EmptyFrame
    /\ locals.data.skincare.rows = <<"row">>

\* C18: extract_from_database never raises and returns exactly the entries
\* db_sephora and db_skincare: when the connection fails both are empty
\* frames; otherwise both tables are queried, a table whose query fails gives
\* an empty frame and the other table its rows.
C18_TablesDegradeToEmpty ==
    [][(pc = at("database", "call") /\ pc' # pc) =>
         LET made == SubSeq(calls', Len(calls) + 1, Len(calls'))
             queried(table) == \E i \in DOMAIN made : made[i] = Call("read_sql", table)
             result(table) == IF table.state = "ok" THEN table.df
                              ELSE [columns |-> 0, rows |-> <<>>]
         IN  /\ pc' = at("database", "save")
             /\ DOMAIN locals'.data = {"db_sephora", "db_skincare"}
             /\ IF world.database.connect # "ok"
                THEN /\ locals'.data.db_sephora = [columns |-> 0, rows |-> <<>>]
                     /\ locals'.data.db_skincare = [columns |-> 0, rows |-> <<>>]
                ELSE /\ queried("sephora_products") /\ queried("skincare_products")
                     /\ locals'.data.db_sephora = result(world.database.sephora)
                     /\ locals'.data.db_skincare = result(world.database.skincare)
      ]_vars

\* the query on sephora_products failed and the rows of skincare_products were
\* returned all the same
C18_Witness ==
    /\ pc = at("database", "save")
    /\ world.database.connect = "ok"
    /\ world.database.sephora.state = "fails"
    /\ locals.data.db_sephora = EmptyFrame
    /\ locals.data.db_skincare.rows = <<"row">>
    /\ calls[Len(calls)] = Call("read_sql", "skincare_products")

\* C19: save_raw, on a raw-data directory that can be written, writes the file
\* {name}_{timestamp}.csv holding the rows it is given if and only if the
\* frame is not empty; given an empty frame, with or without columns, it
\* leaves the directory as it was.
C19_SaveIffNonEmpty ==
    [][(pc.phase = "save" /\ locals.pending # <<>> /\ calls' # calls
        /\ world.disk = "ok") =>
         LET item == Head(locals.pending)
             path == <<"raw", item.name, now>>
         IN  IF item.df.rows = <<>> \/ item.df.columns = 0
             THEN data_dir' = data_dir
             ELSE /\ DOMAIN data_dir' = DOMAIN data_dir \cup {path}
                  /\ data_dir'[path] = item.df.rows
                  /\ \A other \in DOMAIN data_dir \ {path} :
                         data_dir'[other] = data_dir[other]
      ]_vars

\* the scraping gave a frame with its four columns and no row: save_raw was
\* called on it and wrote no file, next to the files of the sources before it
C19_Witness ==
    /\ pc = at("database", "call")
    /\ world.scraping.state = "timeout"
    /\ locals.data = DataFrame(SCRAPING_COLUMNS, <<>>)
    /\ calls[Len(calls)] = Call("save_raw", "scraping_wikipedia_cosmetics")
    /\ \A path \in DOMAIN data_dir : path[2] # "scraping_wikipedia_cosmetics"
    /\ \E path \in DOMAIN data_dir : path[2] = "api_open_beauty_facts"

\* C20: token states move one way, valid -> expired -> absent, with no renewal:
\* no step changes the expiry stored for a token or brings back a token that
\* left the store; an accepted call and a call rejected as malformed or
\* unknown leave the store as it is; a call rejected as expired removes the
\* presented token and nothing else; issuing adds one new entry and alters no
\* other; any other answer of POST /auth/token leaves the store as it is.
C20_NoRenewal ==
    [][/\ \A t \in DOMAIN active_tokens \cap DOMAIN active_tokens' :
             active_tokens'[t] = active_tokens[t]
       /\ \A t \in DOMAIN issued_at :
             t \notin DOMAIN active_tokens => t \notin DOMAIN active_tokens'
       /\ \A t \in DOMAIN active_tokens \cap DOMAIN active_tokens' :
             (now > active_tokens[t] /\ now' >= now) => now' > active_tokens'[t]
       /\ ApiStep =>
             IF resp'.kind = "expired"
             THEN /\ Presented(req') \in DOMAIN active_tokens
                  /\ DOMAIN active_tokens' = DOMAIN active_tokens \ {Presented(req')}
             ELSE active_tokens' = active_tokens
       /\ TokenStep =>
             IF resp'.status = 200
             THEN /\ resp'.token \notin DOMAIN active_tokens
                  /\ DOMAIN active_tokens' = DOMAIN active_tokens \cup {resp'.token}
             ELSE active_tokens' = active_tokens
       /\ (~ApiStep /\ ~TokenStep) => active_tokens' = active_tokens
      ]_vars

\* a call presenting an expired token removed it and left the other token,
\* not yet expired, in the store with its expiry
C20_Witness ==
    /\ Bearer(req) /\ resp.kind = "expired"
    /\ Presented(req) \in DOMAIN issued_at
    /\ Presented(req) \notin DOMAIN active_tokens
    /\ \E t \in DOMAIN active_tokens :
           active_tokens[t] = issued_at[t] + TOKEN_EXPIRY_SECONDS /\ now <= active_tokens[t]

\* connections the request holds after the first n events of its log
Held(n) ==
    Count(SubSeq(db_log, 1, n), {"connect"}) - Count(SubSeq(db_log, 1, n), {"close"})

\* C21: a request takes at most one connection from the engine and never
\* holds two at once; when it has been answered it holds none, whatever the
\* path: every connection opened has been closed.  The views that answer 200
\* or 404, and those whose statement failed and answered 500, opened exactly
\* one connection and closed it after the statement.
C21_ConnectionReleased ==
    /\ \A n \in 0..Len(db_log) : Held(n) \in {0, 1}
    /\ Held(Len(db_log)) = 0
    /\ Count(db_log, {"connect", "connect_error"}) <= 1
    /\ (/\ req.route \in AllApiRoutes
        /\ \/ resp.status \in {200, 404}
           \/ Count(db_log, {"execute_error"}) > 0)
       => /\ Count(db_log, {"connect"}) = 1
          /\ db_log[1] = "connect" /\ db_log[Len(db_log)] = "close"
          /\ Count(db_log, {"execute_error"}) > 0 => resp.status = 500

\* the lookup by id whose statement failed: answered 500, the one
\* connection it opened is closed
C21_Witness ==
    /\ req.route = "sephora_product_by_id"
    /\ resp.status = 500
    /\ Count(db_log, {"connect"}) = 1
    /\ Count(db_log, {"execute_error"}) = 1
    /\ db_log[Len(db_log)] = "close"

\* the tokens of the store whose expiry the clock has passed
ExpiredEntries == {t \in DOMAIN active_tokens : now > active_tokens[t]}

\* C22: eviction is lazy only.  An entry leaves the store in no other step
\* than a gated call that presents that very token while the clock reads more
\* than its expiry, answered 401 "expired"; through every other step (the
\* clock moving, a token being issued whatever the store already holds, a call
\* presenting another token or none) each entry stays, expired or not, with
\* its expiry; issuing never fails or evicts because of the entries held.
C22_LazyEvictionOnly ==
    [][/\ \A t \in DOMAIN active_tokens :
             t \notin DOMAIN active_tokens' =>
                 /\ ApiStep /\ Bearer(req') /\ Presented(req') = t
                 /\ now > active_tokens[t]
                 /\ resp' = [status |-> 401, kind |-> "expired"]
       /\ \A t \in ExpiredEntries :
             ~(ApiStep /\ Bearer(req') /\ Presented(req') = t) =>
                 /\ t \in DOMAIN active_tokens'
                 /\ active_tokens'[t] = active_tokens[t]
       /\ (TokenStep /\ resp'.status = 200) =>
             Cardinality(DOMAIN active_tokens')
                 = Cardinality(DOMAIN active_tokens) + 1
      ]_vars

\* a token was issued while the store held an expired one, and both are in
\* the store: the expired entry, never presented, was not swept
C22_Witness ==
    /\ req.route = "auth_token" /\ resp.status = 200
    /\ ExpiredEntries # {}
    /\ resp.token \notin ExpiredEntries
    /\ DOMAIN active_tokens = DOMAIN issued_at
    /\ Cardinality(DOMAIN active_tokens) = Cardinality(Tokens)

====
